---------------------------- MODULE Spec2Model ----------------------------
(***************************************************************************)
(* Model of biomni/agent_orchestrator.py: one AgentOrchestrator object,    *)
(* the orchestrate() calls made on it, the scheduling loop of              *)
(* _execute_task_graph and the coroutines of _execute_single_task that     *)
(* asyncio.gather runs for each batch (specifications Spec and FairSpec);  *)
(* and of biomni/python_sandbox.py: one PythonSandbox object, one          *)
(* execute() call on it and the child process that call runs               *)
(* (specification SandboxSpec).  Each specification constructs one of the  *)
(* two objects and leaves the other unconstructed.                         *)
(*                                                                         *)
(* A task id "task_<i>_<session_id>" is modelled by the integer i: the     *)
(* session id is fixed when the orchestrator is constructed, so i is the   *)
(* only part of the id that varies.  None is modelled by the string        *)
(* "None".                                                                 *)
(***************************************************************************)
EXTENDS Integers, Sequences, FiniteSets, TLC

\* ------------------------------------------------------------------ bounds
\* most subtasks handed to one orchestrate() call
MaxTasks == 3
\* most dependency ids named by all the subtasks of one call together
MaxEdges == 2
\* largest max_parallel_agents tried
MaxCap == 2
\* orchestrate() is called again on the same object only while the ids in
\* completed_tasks and the new subtasks together are at most this many
MaxCompleted == 3
\* largest timeout_seconds tried, in ticks of the wall clock
MaxTimeout == 2

VARIABLES
    max_parallel_agents, \* self.max_parallel_agents
    completed_tasks,     \* self.state.completed_tasks, a list of task ids
    pc,                  \* where the current orchestrate() call stands
    tasks,               \* the list built by _create_task_graph
    pending_tasks,       \* local pending_tasks: positions in tasks, in order
    results,             \* local results: task id -> {status, result, error}
    batch,               \* local batch: positions in tasks, in order
    batch_results,       \* what each finished coroutine of the batch produced
    ret,                 \* the dictionary orchestrate() returned
    round,               \* iterations of the while loop begun in this call
    timeout_seconds,     \* PythonSandbox.timeout_seconds
    sb_pc,               \* where the execute() call stands
    file_exists,         \* the temporary program file is on disk
    child,               \* the child process of Popen
    preexec_at,          \* the next setrlimit call of the child's preexec_fn
    limits_set,          \* the resource limits in force in the child
    limit_warning,       \* _set_resource_limits logged its warning
    child_out,           \* exit code and output of the child once it exited
    elapsed,             \* wall-clock ticks since communicate() was called
    sb_result            \* the ExecutionResult execute() returned

\* the orchestrator's variables
orch_vars == <<max_parallel_agents, completed_tasks, pc, tasks,
               pending_tasks, results, batch, batch_results, ret, round>>

\* the sandbox's variables
sb_vars == <<timeout_seconds, sb_pc, file_exists, child, preexec_at,
             limits_set, limit_warning, child_out, elapsed, sb_result>>

vars == <<orch_vars, sb_vars>>

\* ------------------------------------------------------------- data types
\* class AgentRole
AgentRole == {"coordinator", "researcher", "analyst", "executor", "validator"}

\* class TaskStatus
TaskStatus == {"pending", "in_progress", "completed", "failed", "cancelled"}

\* ids a "dependencies" list may name; MaxTasks is never the id of a task
DepIds == 0 .. MaxTasks

RECURSIVE SubsetsUpTo(_, _)
\* the subsets of S with at most k elements
SubsetsUpTo(S, k) ==
    IF k = 0 THEN {{}}
    ELSE LET smaller == SubsetsUpTo(S, k - 1)
         IN  smaller \cup {A \cup {x} : A \in smaller, x \in S}

\* the subtask lists of n subtasks tried as input: edges holds <<i, d>> when
\* subtask i names id d as a dependency; subtask bad, if any, names a role
\* that is no AgentRole and the others leave the "role" key out
SubtaskList(n, edges, bad) ==
    [i \in 1 .. n |->
        [role         |-> IF i = bad THEN "wizard" ELSE "None",
         dependencies |-> {d \in DepIds : <<i, d>> \in edges}]]

SubtaskLists(n) ==
    {SubtaskList(n, edges, bad) :
        edges \in SubsetsUpTo((1 .. n) \X DepIds, MaxEdges), bad \in 0 .. n}

\* every subtask list handed to orchestrate()
AllSubtaskLists == UNION {SubtaskLists(n) : n \in 0 .. MaxTasks}

\* subtask.get("role", "executor")
RoleOf(subtask) == IF subtask.role = "None" THEN "executor" ELSE subtask.role

\* AgentTask(task_id=..., role=..., dependencies=...), the other fields default
AgentTask(i, subtask) ==
    [task_id      |-> i - 1,
     role         |-> RoleOf(subtask),
     dependencies |-> subtask.dependencies,
     status       |-> "pending",
     result       |-> "None",
     error        |-> "None"]

\* AgentRole(value) raises ValueError for a value that is no member
CreateRaises(subtasks) ==
    \E i \in 1 .. Len(subtasks) : RoleOf(subtasks[i]) \notin AgentRole

\* _create_task_graph: one AgentTask per subtask, in order, nothing else checked
CreateTaskGraph(subtasks) ==
    [i \in 1 .. Len(subtasks) |-> AgentTask(i, subtasks[i])]

\* ---------------------------------------------------------------- helpers
Range(s) == {s[k] : k \in 1 .. Len(s)}

RECURSIVE SelectSeq2(_, _)
\* a list comprehension with a filter: the elements of s in T, in order
SelectSeq2(s, T) ==
    IF s = <<>> THEN <<>>
    ELSE IF Head(s) \in T THEN <<Head(s)>> \o SelectSeq2(Tail(s), T)
         ELSE SelectSeq2(Tail(s), T)

Min(a, b) == IF a <= b THEN a ELSE b

\* all(dep in self.state.completed_tasks for dep in t.dependencies)
IsReady(p) == \A dep \in tasks[p].dependencies : dep \in Range(completed_tasks)

\* ready_tasks = [t for t in pending_tasks if all(...)]
ReadyTasks == SelectSeq2(pending_tasks, {p \in Range(pending_tasks) : IsReady(p)})

\* a batch size that forgets the cap: batch_size = len(ready_tasks)
BatchSizeUncapped(ready) == Len(ready)

\* batch_size = min(len(ready_tasks), self.max_parallel_agents)
BatchSize(ready) == Min(Len(ready), max_parallel_agents)

\* a batch taken from the end of the ready list: ready_tasks[-batch_size:]
BatchFromEnd(ready) == SubSeq(ready, Len(ready) - BatchSize(ready) + 1, Len(ready))

\* batch = ready_tasks[:batch_size]
Batch(ready) == SubSeq(ready, 1, BatchSize(ready))

\* ------------------------------------------------------ the batch's join
\* asyncio.gather(...) without return_exceptions: the first exception is raised
ReturnExceptionsOff == FALSE

\* asyncio.gather(..., return_exceptions=True): exceptions come back as values
ReturnExceptions == TRUE

\* what the dispatch of one task can produce: a result, or an exception
Outcomes == {"result", "exception"}

\* gather raises out of the loop only if exceptions are not returned as values
GatherRaises ==
    /\ ~ReturnExceptions
    /\ \E p \in DOMAIN batch_results : batch_results[p] = "exception"

\* a loop body that forgets pending_tasks.remove(task)
RemoveNothing(s, p) == s

\* pending_tasks.remove(task)
Remove(s, p) == SelectSeq2(s, Range(s) \ {p})

\* a loop body whose completed_tasks.append is outside the if/else, so that
\* the id of a failed task is appended too
UpdateOneAppendsAlways(st, p) ==
    LET failed == batch_results[p] = "exception"
        task   == IF failed
                  THEN [st.tasks[p] EXCEPT !.status = "failed", !.error = "exception"]
                  ELSE [st.tasks[p] EXCEPT !.status = "completed", !.result = "result"]
    IN  [tasks           |-> [st.tasks EXCEPT ![p] = task],
         results         |-> (task.task_id :> [status |-> task.status,
                                               result |-> task.result,
                                               error  |-> task.error])
                             @@ st.results,
         completed_tasks |-> Append(st.completed_tasks, task.task_id),
         pending_tasks   |-> SelectSeq2(st.pending_tasks,
                                        Range(st.pending_tasks) \ {p})]

\* a loop body that stores what gather returned in task.result in both
\* branches, also when it is an exception
UpdateOneBoth(st, p) ==
    LET failed == batch_results[p] = "exception"
        task   == IF failed
                  THEN [st.tasks[p] EXCEPT !.status = "failed", !.error = "exception",
                                           !.result = "exception"]
                  ELSE [st.tasks[p] EXCEPT !.status = "completed", !.result = "result"]
    IN  [tasks           |-> [st.tasks EXCEPT ![p] = task],
         results         |-> (task.task_id :> [status |-> task.status,
                                               result |-> task.result,
                                               error  |-> task.error])
                             @@ st.results,
         completed_tasks |-> IF failed THEN st.completed_tasks
                             ELSE Append(st.completed_tasks, task.task_id),
         pending_tasks   |-> SelectSeq2(st.pending_tasks,
                                        Range(st.pending_tasks) \ {p})]

\* one iteration of "for task, result in zip(batch, batch_results)" on the
\* loop's state st = [tasks, results, completed_tasks, pending_tasks]
UpdateOne(st, p) ==
    LET failed == batch_results[p] = "exception"
        task   == IF failed
                  THEN [st.tasks[p] EXCEPT !.status = "failed", !.error = "exception"]
                  ELSE [st.tasks[p] EXCEPT !.status = "completed", !.result = "result"]
    IN  [tasks           |-> [st.tasks EXCEPT ![p] = task],
         results         |-> (task.task_id :> [status |-> task.status,
                                               result |-> task.result,
                                               error  |-> task.error])
                             @@ st.results,
         completed_tasks |-> IF failed THEN st.completed_tasks
                             ELSE Append(st.completed_tasks, task.task_id),
         pending_tasks   |-> Remove(st.pending_tasks, p)]

RECURSIVE UpdateAll(_, _)
\* the whole for loop over the batch, in batch order
UpdateAll(st, b) ==
    IF b = <<>> THEN st ELSE UpdateAll(UpdateOne(st, Head(b)), Tail(b))

\* ------------------------------------------------------- orchestrate's value
NoReturn ==
    [main_task |-> "None", status |-> "None", results |-> <<>>,
     metadata |-> [total_tasks |-> 0, completed_tasks |-> 0, failed_tasks |-> 0]]

CountStatus(s) == Cardinality({p \in DOMAIN tasks : tasks[p].status = s})

\* the dictionary orchestrate() compiles once _execute_task_graph has returned
FinalResult ==
    [main_task |-> "main",
     status    |-> "completed",
     results   |-> results,
     metadata  |-> [total_tasks     |-> Len(tasks),
                    completed_tasks |-> CountStatus("completed"),
                    failed_tasks    |-> CountStatus("failed")]]

\* ------------------------------------------------------ the sandbox's data
\* the limits _set_resource_limits sets, in the order of its setrlimit calls
LimitOrder == <<"RLIMIT_AS", "RLIMIT_CPU", "RLIMIT_CORE">>

\* no child has exited
NoChildOutput == [return_code |-> 0, stdout |-> "None", stderr |-> "None"]

\* how the wrapped program can end by itself: the payload runs through, the
\* payload raises an Exception (the wrapper exits 1), the payload calls
\* sys.exit(2), or a signal kills the process (SIGKILL: return code -9)
ChildOutcomes ==
    {[return_code |-> 0, stdout |-> "", stderr |-> "time"],
     [return_code |-> 0, stdout |-> "out", stderr |-> "time"],
     [return_code |-> 1, stdout |-> "out", stderr |-> "error time"],
     [return_code |-> 2, stdout |-> "", stderr |-> "time"],
     [return_code |-> -9, stdout |-> "out", stderr |-> ""]}

\* execute() has returned no ExecutionResult
NoResult ==
    [success |-> FALSE, stdout |-> "None", stderr |-> "None",
     return_code |-> 0, execution_time |-> 0, memory_used |-> 0]

\* a result built with success = True whatever the return code
ExitResultAlwaysSuccess(out, time) ==
    [success        |-> TRUE,
     stdout         |-> out.stdout,
     stderr         |-> out.stderr,
     return_code    |-> out.return_code,
     execution_time |-> time,
     memory_used    |-> 0]

\* the ExecutionResult built when communicate() returns within the timeout
ExitResult(out, time) ==
    [success        |-> out.return_code = 0,
     stdout         |-> out.stdout,
     stderr         |-> out.stderr,
     return_code    |-> out.return_code,
     execution_time |-> time,
     memory_used    |-> 0]

\* a timeout result that reports the killed child as an ordinary exit
TimeoutResultAsExit(timeout) ==
    [success        |-> TRUE,
     stdout         |-> "",
     stderr         |-> "",
     return_code    |-> 0,
     execution_time |-> timeout,
     memory_used    |-> 0]

\* the ExecutionResult built in "except subprocess.TimeoutExpired"
TimeoutResult(timeout) ==
    [success        |-> FALSE,
     stdout         |-> "",
     stderr         |-> "Execution timeout",
     return_code    |-> -1,
     execution_time |-> timeout,
     memory_used    |-> 0]

\* the ExecutionResult built in "except Exception as e": stderr is str(e)
ErrorResult(e) ==
    [success        |-> FALSE,
     stdout         |-> "",
     stderr         |-> e,
     return_code    |-> -1,
     execution_time |-> 0,
     memory_used    |-> 0]

\* an exception of a setrlimit call leaves _set_resource_limits
PreexecCatchesNothing == FALSE

\* "try: ... except Exception as e: logging.warning(...)" around the setrlimit
\* calls: no exception of a setrlimit call leaves _set_resource_limits
PreexecCatches == TRUE

\* the finally clause of execute(): the file is removed if it exists
Finally(exists) == IF exists THEN FALSE ELSE exists

\* ------------------------------------------------------------------- Init
\* no PythonSandbox has been constructed
NoSandbox ==
    /\ timeout_seconds = 0
    /\ sb_pc = "none"
    /\ file_exists = FALSE
    /\ child = "none"
    /\ preexec_at = 1
    /\ limits_set = {}
    /\ limit_warning = FALSE
    /\ child_out = NoChildOutput
    /\ elapsed = 0
    /\ sb_result = NoResult

\* AgentOrchestrator.__init__, for a positive max_parallel_agents
Init ==
    /\ NoSandbox
    /\ round = 0
    /\ max_parallel_agents \in 1 .. MaxCap
    /\ completed_tasks = <<>>
    /\ pc = "idle"
    /\ tasks = <<>>
    /\ pending_tasks = <<>>
    /\ results = <<>>
    /\ batch = <<>>
    /\ batch_results = <<>>
    /\ ret = NoReturn

\* ---------------------------------------------------------------- actions
\* orchestrate() up to the first evaluation of "while pending_tasks"
Orchestrate ==
    /\ pc = "idle"
    /\ \E subtasks \in AllSubtaskLists :
          /\ Len(completed_tasks) + Len(subtasks) <= MaxCompleted
          /\ IF CreateRaises(subtasks)
             THEN /\ pc' = "raised"
                  /\ tasks' = <<>>
                  /\ pending_tasks' = <<>>
             ELSE /\ pc' = "loop"
                  /\ tasks' = CreateTaskGraph(subtasks)
                  /\ pending_tasks' = [i \in 1 .. Len(subtasks) |-> i]
    /\ round' = 0
    /\ UNCHANGED sb_vars
    /\ UNCHANGED <<max_parallel_agents, completed_tasks, results, batch,
                   batch_results, ret>>

\* a loop that selects the next batch without awaiting the whole batch
SelectBatchEager ==
    /\ pc \in {"loop", "gather"}
    /\ pending_tasks # <<>>
    /\ ReadyTasks # <<>>
    /\ batch' = Batch(ReadyTasks)
    /\ batch_results' = <<>>
    /\ pc' = "gather"
    /\ round' = round + 1
    /\ UNCHANGED sb_vars
    /\ UNCHANGED <<max_parallel_agents, completed_tasks, tasks,
                   pending_tasks, results, ret>>

\* one pass from "while pending_tasks" to the await of asyncio.gather
SelectBatch ==
    /\ pc = "loop"
    /\ pending_tasks # <<>>
    /\ ReadyTasks # <<>>
    /\ batch' = Batch(ReadyTasks)
    /\ batch_results' = <<>>
    /\ pc' = "gather"
    /\ round' = round + 1
    /\ UNCHANGED sb_vars
    /\ UNCHANGED <<max_parallel_agents, completed_tasks, tasks,
                   pending_tasks, results, ret>>

\* the coroutines of the batch are started in batch order
NextToStart(k) ==
    /\ k \in 1 .. Len(batch)
    /\ tasks[batch[k]].status # "in_progress"
    /\ \A j \in 1 .. k - 1 : tasks[batch[j]].status = "in_progress"

\* _execute_single_task up to its await: task.status = TaskStatus.IN_PROGRESS
StartTask ==
    /\ pc = "gather"
    /\ \E k \in 1 .. Len(batch) :
          /\ NextToStart(k)
          /\ tasks' = [tasks EXCEPT ![batch[k]].status = "in_progress"]
    /\ UNCHANGED round
    /\ UNCHANGED sb_vars
    /\ UNCHANGED <<max_parallel_agents, completed_tasks, pc,
                   pending_tasks, results, batch, batch_results, ret>>

\* _execute_single_task from its await on: it returns a result or raises
FinishTask(p, outcome) ==
    /\ pc = "gather"
    /\ p \in Range(batch)
    /\ p \notin DOMAIN batch_results
    /\ tasks[p].status = "in_progress"
    /\ batch_results' = (p :> outcome) @@ batch_results
    /\ UNCHANGED round
    /\ UNCHANGED sb_vars
    /\ UNCHANGED <<max_parallel_agents, completed_tasks, pc, tasks,
                   pending_tasks, results, batch, ret>>

\* gather returns once every coroutine of the batch has finished; the for
\* loop then records every outcome
CollectBatch ==
    /\ pc = "gather"
    /\ DOMAIN batch_results = Range(batch)
    /\ IF GatherRaises
       THEN /\ pc' = "raised"
            /\ UNCHANGED <<tasks, results, completed_tasks, pending_tasks>>
       ELSE LET st == UpdateAll([tasks           |-> tasks,
                                 results         |-> results,
                                 completed_tasks |-> completed_tasks,
                                 pending_tasks   |-> pending_tasks], batch)
            IN  /\ pc' = "loop"
                /\ tasks' = st.tasks
                /\ results' = st.results
                /\ completed_tasks' = st.completed_tasks
                /\ pending_tasks' = st.pending_tasks
    /\ UNCHANGED round
    /\ UNCHANGED sb_vars
    /\ UNCHANGED <<max_parallel_agents, batch, batch_results, ret>>

\* "while pending_tasks" is false: the loop ends and orchestrate returns
ExitExhausted ==
    /\ pc = "loop"
    /\ pending_tasks = <<>>
    /\ ret' = FinalResult
    /\ pc' = "returned"
    /\ UNCHANGED round
    /\ UNCHANGED sb_vars
    /\ UNCHANGED <<max_parallel_agents, completed_tasks, tasks,
                   pending_tasks, results, batch, batch_results>>

\* "if not ready_tasks: ... break": the loop ends and orchestrate returns
ExitDeadlock ==
    /\ pc = "loop"
    /\ pending_tasks # <<>>
    /\ ReadyTasks = <<>>
    /\ ret' = FinalResult
    /\ pc' = "returned"
    /\ UNCHANGED round
    /\ UNCHANGED sb_vars
    /\ UNCHANGED <<max_parallel_agents, completed_tasks, tasks,
                   pending_tasks, results, batch, batch_results>>

\* code outside the orchestrator writes TaskStatus.CANCELLED into the status
\* field of a pending task that has not been dispatched; it can run only
\* while the loop is suspended in its await
Cancel(p) ==
    /\ pc = "gather"
    /\ p \in DOMAIN tasks
    /\ p \notin Range(batch)
    /\ tasks[p].status = "pending"
    /\ tasks' = [tasks EXCEPT ![p].status = "cancelled"]
    /\ UNCHANGED round
    /\ UNCHANGED sb_vars
    /\ UNCHANGED <<max_parallel_agents, completed_tasks, pc,
                   pending_tasks, results, batch, batch_results, ret>>

\* orchestrate() has returned or raised: its caller has the outcome, and the
\* call's locals (tasks, pending_tasks, results, batch) are gone
CallEnds ==
    /\ pc \in {"returned", "raised"}
    /\ pc' = "idle"
    /\ tasks' = <<>>
    /\ pending_tasks' = <<>>
    /\ results' = <<>>
    /\ batch' = <<>>
    /\ batch_results' = <<>>
    /\ ret' = NoReturn
    /\ round' = 0
    /\ UNCHANGED sb_vars
    /\ UNCHANGED <<max_parallel_agents, completed_tasks>>

\* the steps the event loop itself takes
SchedulerStep ==
    \/ SelectBatch
    \/ StartTask
    \/ \E p \in 1 .. MaxTasks, outcome \in Outcomes : FinishTask(p, outcome)
    \/ CollectBatch
    \/ ExitExhausted
    \/ ExitDeadlock

Next ==
    \/ Orchestrate
    \/ SelectBatch
    \/ StartTask
    \/ \E p \in 1 .. MaxTasks, outcome \in Outcomes : FinishTask(p, outcome)
    \/ CollectBatch
    \/ ExitExhausted
    \/ ExitDeadlock
    \/ \E p \in 1 .. MaxTasks : Cancel(p)
    \/ CallEnds

Spec == Init /\ [][Next]_vars

\* the event loop keeps running what is runnable, and every dispatch ends
FairSpec == Spec /\ WF_vars(SchedulerStep)

\* one orchestrate call on a newly constructed AgentOrchestrator: the object
\* is not used again after the call has returned or raised
FirstCallNext ==
    \/ Orchestrate
    \/ SelectBatch
    \/ StartTask
    \/ \E p \in 1 .. MaxTasks, outcome \in Outcomes : FinishTask(p, outcome)
    \/ CollectBatch
    \/ ExitExhausted
    \/ ExitDeadlock
    \/ \E p \in 1 .. MaxTasks : Cancel(p)

FirstCallSpec == Init /\ [][FirstCallNext]_vars

\* ------------------------------------------------------------ the sandbox
\* no AgentOrchestrator has been constructed
NoOrchestrator ==
    /\ max_parallel_agents = 0
    /\ completed_tasks = <<>>
    /\ pc = "none"
    /\ tasks = <<>>
    /\ pending_tasks = <<>>
    /\ results = <<>>
    /\ batch = <<>>
    /\ batch_results = <<>>
    /\ ret = NoReturn
    /\ round = 0

\* PythonSandbox.__init__, for a positive timeout_seconds
SandboxInit ==
    /\ NoOrchestrator
    /\ timeout_seconds \in 1 .. MaxTimeout
    /\ sb_pc = "idle"
    /\ file_exists = FALSE
    /\ child = "none"
    /\ preexec_at = 1
    /\ limits_set = {}
    /\ limit_warning = FALSE
    /\ child_out = NoChildOutput
    /\ elapsed = 0
    /\ sb_result = NoResult

\* execute() enters "with tempfile.NamedTemporaryFile(..., delete=False)": the
\* file is created, or the call raises and there is no file
CreateTempFile ==
    /\ sb_pc = "idle"
    /\ \E ok \in BOOLEAN :
          IF ok THEN sb_pc' = "created" /\ file_exists' = TRUE
                ELSE sb_pc' = "raised" /\ file_exists' = FALSE
    /\ UNCHANGED <<timeout_seconds, child, preexec_at, limits_set,
                   limit_warning, child_out, elapsed, sb_result>>
    /\ UNCHANGED orch_vars

\* the body of the with block, f.write(self._wrap_code(code)): it runs
\* through and the try block is entered, or it raises out of execute(),
\* which is not yet inside "try: ... finally:"
WriteCode ==
    /\ sb_pc = "created"
    /\ \E ok \in BOOLEAN :
          sb_pc' = IF ok THEN "written" ELSE "raised"
    /\ UNCHANGED <<timeout_seconds, file_exists, child, preexec_at,
                   limits_set, limit_warning, child_out, elapsed, sb_result>>
    /\ UNCHANGED orch_vars

\* execute() leaves _execute_with_limits with the result r: the finally
\* clause runs and execute() returns r
ReturnResult(r) ==
    /\ sb_result' = r
    /\ file_exists' = Finally(file_exists)
    /\ sb_pc' = "returned"

\* subprocess.Popen forks the child, which then runs preexec_fn; or the fork
\* fails with an OSError, which "except Exception" turns into a result
Fork ==
    /\ sb_pc = "written"
    /\ \E ok \in BOOLEAN :
          IF ok THEN /\ sb_pc' = "popen"
                     /\ child' = "preexec"
                     /\ UNCHANGED <<file_exists, sb_result>>
                ELSE /\ ReturnResult(ErrorResult("OSError"))
                     /\ UNCHANGED child
    /\ UNCHANGED <<timeout_seconds, preexec_at, limits_set, limit_warning,
                   child_out, elapsed>>
    /\ UNCHANGED orch_vars

\* a _set_resource_limits with one try/except around each setrlimit call: a
\* failed call is logged and the next call is still made
SetLimitEachGuarded ==
    /\ sb_pc = "popen"
    /\ child = "preexec"
    /\ preexec_at <= Len(LimitOrder)
    /\ \E ok \in BOOLEAN :
          IF ok
          THEN /\ limits_set' = limits_set \cup {LimitOrder[preexec_at]}
               /\ UNCHANGED limit_warning
          ELSE /\ limit_warning' = TRUE
               /\ UNCHANGED limits_set
    /\ preexec_at' = preexec_at + 1
    /\ UNCHANGED <<timeout_seconds, sb_pc, file_exists, child, child_out,
                   elapsed, sb_result>>
    /\ UNCHANGED orch_vars

\* one resource.setrlimit call of _set_resource_limits in the child: it sets
\* the limit, or it raises; the except clause then logs a warning and the
\* function returns without the later calls
SetLimit ==
    /\ sb_pc = "popen"
    /\ child = "preexec"
    /\ preexec_at <= Len(LimitOrder)
    /\ \E ok \in BOOLEAN :
          IF ok
          THEN /\ limits_set' = limits_set \cup {LimitOrder[preexec_at]}
               /\ preexec_at' = preexec_at + 1
               /\ UNCHANGED <<sb_pc, file_exists, child, limit_warning,
                              sb_result>>
          ELSE IF PreexecCatches
          THEN /\ limit_warning' = TRUE
               /\ preexec_at' = Len(LimitOrder) + 1
               /\ UNCHANGED <<sb_pc, file_exists, child, limits_set,
                              sb_result>>
          ELSE \* the exception leaves preexec_fn: the child dies and Popen
               \* raises SubprocessError in the parent
               /\ child' = "none"
               /\ ReturnResult(ErrorResult("Exception occurred in preexec_fn"))
               /\ UNCHANGED <<preexec_at, limits_set, limit_warning>>
    /\ UNCHANGED <<timeout_seconds, child_out, elapsed>>
    /\ UNCHANGED orch_vars

\* preexec_fn has returned: the child execs python3 and Popen returns, then
\* communicate() is called; or the exec fails and Popen raises an OSError,
\* which "except Exception" turns into a result
Exec ==
    /\ sb_pc = "popen"
    /\ child = "preexec"
    /\ preexec_at > Len(LimitOrder)
    /\ \E ok \in BOOLEAN :
          IF ok THEN /\ sb_pc' = "communicate"
                     /\ child' = "running"
                     /\ UNCHANGED <<file_exists, sb_result>>
                ELSE /\ child' = "none"
                     /\ ReturnResult(ErrorResult("OSError"))
    /\ UNCHANGED <<timeout_seconds, preexec_at, limits_set, limit_warning,
                   child_out, elapsed>>
    /\ UNCHANGED orch_vars

\* the wall clock advances while communicate() waits for the running child
Tick ==
    /\ sb_pc = "communicate"
    /\ child = "running"
    /\ elapsed < timeout_seconds
    /\ elapsed' = elapsed + 1
    /\ UNCHANGED <<timeout_seconds, sb_pc, file_exists, child, preexec_at,
                   limits_set, limit_warning, child_out, sb_result>>
    /\ UNCHANGED orch_vars

\* the child exits by itself
ChildExits(out) ==
    /\ sb_pc = "communicate"
    /\ child = "running"
    /\ child' = "exited"
    /\ child_out' = out
    /\ UNCHANGED <<timeout_seconds, sb_pc, file_exists, preexec_at,
                   limits_set, limit_warning, elapsed, sb_result>>
    /\ UNCHANGED orch_vars

\* communicate() returns the output of the exited child
CommunicateReturns ==
    /\ sb_pc = "communicate"
    /\ child = "exited"
    /\ ReturnResult(ExitResult(child_out, elapsed))
    /\ UNCHANGED <<timeout_seconds, child, preexec_at, limits_set,
                   limit_warning, child_out, elapsed>>
    /\ UNCHANGED orch_vars

\* communicate() raises TimeoutExpired: process.kill() and the timeout result
TimeoutExpired ==
    /\ sb_pc = "communicate"
    /\ child = "running"
    /\ elapsed = timeout_seconds
    /\ child' = "killed"
    /\ ReturnResult(TimeoutResult(timeout_seconds))
    /\ UNCHANGED <<timeout_seconds, preexec_at, limits_set, limit_warning,
                   child_out, elapsed>>
    /\ UNCHANGED orch_vars

SandboxNext ==
    \/ CreateTempFile
    \/ WriteCode
    \/ Fork
    \/ SetLimit
    \/ Exec
    \/ Tick
    \/ \E out \in ChildOutcomes : ChildExits(out)
    \/ CommunicateReturns
    \/ TimeoutExpired

SandboxSpec == SandboxInit /\ [][SandboxNext]_vars

\* ----------------------------------------------- vocabulary of the claims
Status(p) == tasks[p].status

InProgress == {p \in DOMAIN tasks : Status(p) = "in_progress"}

\* the ids of the tasks built by the current call
TaskIds == {tasks[p].task_id : p \in DOMAIN tasks}

\* task p names the id of task q as a dependency
DependsOn(p, q) == tasks[q].task_id \in tasks[p].dependencies

RECURSIVE DependentsWithin(_, _)
\* the tasks reached from the set S by following DependsOn backwards, k times
DependentsWithin(S, k) ==
    IF k = 0 THEN S
    ELSE DependentsWithin(
             S \cup {p \in DOMAIN tasks : \E q \in S : DependsOn(p, q)}, k - 1)

\* the tasks that depend on task q, directly or transitively
Dependents(q) ==
    DependentsWithin({p \in DOMAIN tasks : DependsOn(p, q)}, Len(tasks))

\* some task depends on itself, directly or transitively
HasCycle == \E p \in DOMAIN tasks : p \in Dependents(p)

\* every dependency names a task of the same call, and there is no cycle
ValidAcyclic ==
    /\ \A p \in DOMAIN tasks : tasks[p].dependencies \subseteq TaskIds
    /\ ~HasCycle

\* the loop was left by its break: tasks were pending and none was ready
LeftByDeadlock == pc = "returned" /\ pending_tasks # <<>>

\* the ids of the tasks still pending
PendingIds == {tasks[p].task_id : p \in Range(pending_tasks)}

\* -------------------------------------------------------------------- C1
\* C1: every task placed in a batch has all of its dependency ids in
\* completed_tasks when the batch is selected, and no task is in_progress
\* unless each of its dependencies is a task with status completed.
C1_DependenciesCompletedFirst ==
    /\ pc = "gather" =>
          \A p \in Range(batch) :
              tasks[p].dependencies \subseteq Range(completed_tasks)
    /\ \A p \in InProgress : \A dep \in tasks[p].dependencies :
          \E q \in DOMAIN tasks :
              tasks[q].task_id = dep /\ Status(q) = "completed"

\* -------------------------------------------------------------------- C2
\* C2: in every reachable state the number of tasks with status in_progress
\* is at most max_parallel_agents.
C2_AtMostCapInProgress == Cardinality(InProgress) <= max_parallel_agents

\* more tasks are ready than the cap admits, and the cap is used up
C2_Witness ==
    /\ pc = "gather"
    /\ Len(ReadyTasks) > max_parallel_agents
    /\ Cardinality(InProgress) = max_parallel_agents

\* -------------------------------------------------------------------- C3
\* C3: when the loop has ended on a task set whose dependencies are acyclic
\* and name only tasks of the set, every task is completed or failed.
C3_AllTerminalWhenAcyclic ==
    (pc = "returned" /\ ValidAcyclic) =>
        \A p \in DOMAIN tasks : Status(p) \in {"completed", "failed"}

\* -------------------------------------------------------------------- C4
\* C4: when the loop has ended on a task set with a dependency cycle while
\* tasks were still pending, the returned result reports the deadlock and
\* names the tasks that were pending.
C4_DeadlockReported ==
    (LeftByDeadlock /\ HasCycle) =>
        /\ ret.status # "completed"
        /\ PendingIds \subseteq DOMAIN ret.results

\* -------------------------------------------------------------------- C5
\* C5: when the loop has ended with tasks still pending, each of them is
\* reported as failed with an error, and counted in failed_tasks, and the
\* results of the completed tasks are in the returned map as recorded.
C5_PendingReportedFailed ==
    LeftByDeadlock =>
        /\ \A id \in PendingIds :
              /\ id \in DOMAIN ret.results
              /\ ret.results[id].status = "failed"
              /\ ret.results[id].error # "None"
        /\ ret.metadata.failed_tasks
              = CountStatus("failed") + Cardinality(PendingIds)
        /\ \A id \in DOMAIN results :
              id \in DOMAIN ret.results /\ ret.results[id] = results[id]

\* -------------------------------------------------------------------- C6
\* C6: every task that depends, directly or transitively, on a failed task
\* stays pending and undispatched, and is named in the returned result.
C6_DependentsOfFailedBlockedAndReported ==
    \A q \in DOMAIN tasks : Status(q) = "failed" =>
        \A p \in Dependents(q) :
            /\ p \in Range(pending_tasks)
            /\ Status(p) \notin {"in_progress", "completed", "failed"}
            /\ pc = "returned" => tasks[p].task_id \in DOMAIN ret.results

\* -------------------------------------------------------------------- C7
\* orchestrate raises only out of _create_task_graph, never out of the loop
C7_NoRaiseFromTasks == pc = "raised" => tasks = <<>>

\* once a batch is joined, every task of it is recorded with its own outcome
C7_BatchRecorded ==
    (pc = "loop" /\ batch # <<>>) =>
        \A p \in Range(batch) :
            /\ tasks[p].task_id \in DOMAIN results
            /\ results[tasks[p].task_id].status = Status(p)
            /\ Status(p) = IF batch_results[p] = "exception"
                           THEN "failed" ELSE "completed"

\* task p is pending with every dependency in completed_tasks
C7_ReadyPending(p) ==
    /\ pc \in {"loop", "gather"}
    /\ p \in Range(pending_tasks)
    /\ IsReady(p)

\* C7: a failing task never makes orchestrate raise, the tasks of its batch
\* are recorded with their own outcomes, and every pending task whose
\* dependencies are all completed is eventually completed or failed.
C7_FailureNeverAborts ==
    /\ [](C7_NoRaiseFromTasks /\ C7_BatchRecorded)
    /\ \A p \in 1 .. MaxTasks :
          C7_ReadyPending(p) ~>
              (p \in DOMAIN tasks /\ Status(p) \in {"completed", "failed"})

\* a batch was joined in which one task raised and another returned, and a
\* task is still pending and ready
C7_Witness ==
    /\ pc = "loop"
    /\ \E p, q \in Range(batch) :
          /\ batch_results[p] = "exception" /\ Status(p) = "failed"
          /\ batch_results[q] = "result" /\ Status(q) = "completed"
    /\ \E p \in Range(pending_tasks) : IsReady(p)

\* -------------------------------------------------------------------- C8
\* C8: a task graph is built only from subtasks whose roles are known and
\* whose dependencies name other tasks built in the same call.
C8_BuiltGraphIsValid ==
    pc \in {"loop", "gather", "returned"} =>
        \A p \in DOMAIN tasks :
            /\ tasks[p].role \in AgentRole
            /\ tasks[p].dependencies \subseteq TaskIds
            /\ tasks[p].task_id \notin tasks[p].dependencies

\* -------------------------------------------------------------------- C9
\* the loop of a call is about to run for the first time
CallStarts ==
    /\ pc = "loop"
    /\ tasks # <<>>
    /\ results = <<>>
    /\ Len(pending_tasks) = Len(tasks)

\* C9: completed_tasks is empty at the start of every orchestrate call.
C9_FreshStatePerCall == CallStarts => completed_tasks = <<>>

\* ------------------------------------------------------------------- C10
\* C10: within a call, a task whose status is cancelled keeps that status:
\* it is not started and not completed.
C10_CancelledStaysCancelled ==
    [][\A p \in 1 .. MaxTasks :
          (pc \in {"loop", "gather"} /\ p \in DOMAIN tasks
              /\ Status(p) = "cancelled")
          => (p \in DOMAIN tasks' /\ tasks'[p].status = "cancelled")]_vars

\* ------------------------------------------------------------------- C11
\* C11: execute raises only before a child exists, and when it returns with
\* a child that did not exit by itself, the child was killed and the result
\* is success=false, return_code=-1, the timeout diagnostic, empty stdout.
C11_TimeoutOutcome ==
    /\ sb_pc = "raised" => child = "none"
    /\ (sb_pc = "returned" /\ child \notin {"none", "exited"}) =>
          /\ child = "killed"
          /\ sb_result.success = FALSE
          /\ sb_result.return_code = -1
          /\ sb_result.stderr = "Execution timeout"
          /\ sb_result.stdout = ""

\* the timeout passed with the child running, and execute has returned
C11_Witness ==
    /\ sb_pc = "returned"
    /\ child = "killed"
    /\ elapsed = timeout_seconds

\* ------------------------------------------------------------------- C12
\* C12: execute returns a result only when the child ran (it exited or was
\* killed at the timeout), and raises only when no child ran.
C12_LaunchFailurePropagates ==
    /\ sb_pc = "returned" => child \in {"exited", "killed"}
    /\ sb_pc = "raised" => child = "none"

\* ------------------------------------------------------------------- C13
\* C13: once execute has returned or raised, the temporary file is gone.
C13_NoTempFileLeft == sb_pc \in {"returned", "raised"} => ~file_exists

\* ------------------------------------------------------------------- C14
\* C14: when the child exited by itself, the result carries the child's exit
\* code, and success is true exactly when that code is 0.
C14_ExitCodeAndSuccess ==
    (sb_pc = "returned" /\ child = "exited") =>
        /\ sb_result.return_code = child_out.return_code
        /\ sb_result.success = (child_out.return_code = 0)

\* a child that exited 0 was reported with success=true and return_code=0
C14_Witness ==
    /\ sb_pc = "returned"
    /\ child = "exited"
    /\ child_out.return_code = 0
    /\ sb_result.success = TRUE
    /\ sb_result.return_code = 0

\* ------------------------------------------------------------------- C15
\* the status changes of section 4.4
AllowedTransitions ==
    {<<"pending", "in_progress">>, <<"in_progress", "completed">>,
     <<"in_progress", "failed">>, <<"pending", "cancelled">>}

\* C15: within a call, every change of a task's status is one of the allowed
\* transitions, so completed, failed and cancelled are never left.
C15_OnlyAllowedTransitions ==
    [][\A p \in 1 .. MaxTasks :
          (p \in DOMAIN tasks /\ p \in DOMAIN tasks') =>
              \/ tasks'[p].status = tasks[p].status
              \/ <<tasks[p].status, tasks'[p].status>> \in AllowedTransitions]_vars

\* ------------------------------------------------------------------- C16
\* the tasks still in the pending list whose dependency ids are all completed
PendingReady ==
    {p \in Range(pending_tasks) :
        tasks[p].dependencies \subseteq Range(completed_tasks)}

\* C16: the batch lists ready pending tasks in submission order, it holds
\* min(|ready set|, cap) of them, and a ready task is left out only if cap
\* tasks submitted before it are in the batch.
C16_BatchIsFirstReady ==
    pc = "gather" =>
        /\ Range(batch) \subseteq PendingReady
        /\ \A i, j \in 1 .. Len(batch) : i < j => batch[i] < batch[j]
        /\ Len(batch) = IF Cardinality(PendingReady) <= max_parallel_agents
                        THEN Cardinality(PendingReady)
                        ELSE max_parallel_agents
        /\ \A q \in PendingReady \ Range(batch) :
              /\ Len(batch) = max_parallel_agents
              /\ \A p \in Range(batch) : p < q

\* a ready task was left out of the batch
C16_Witness ==
    /\ pc = "gather"
    /\ PendingReady \ Range(batch) # {}

\* ------------------------------------------------------------------- C17
\* some dispatch of the current batch has not produced its outcome yet
RoundOpen == pc = "gather" /\ DOMAIN batch_results # Range(batch)

\* only tasks of the current batch are in_progress, and only during the join
C17_OnlyBatchInProgress ==
    /\ InProgress \subseteq Range(batch)
    /\ InProgress # {} => pc = "gather"

\* while a round is open no further round begins and the batch,
\* completed_tasks and the pending list stay as they are, and within a call
\* the two lists change only at the join
C17_StateFrozenWhileOpen ==
    /\ RoundOpen =>
          /\ round' = round
          /\ batch' = batch
          /\ completed_tasks' = completed_tasks
          /\ pending_tasks' = pending_tasks
    /\ (pc \in {"loop", "gather"} /\ pc' # "idle"
           /\ (completed_tasks' # completed_tasks
                  \/ pending_tasks' # pending_tasks)) =>
          (pc = "gather" /\ DOMAIN batch_results = Range(batch))

\* C17: rounds do not overlap: no task outside the batch is in_progress, and
\* the batch, completed_tasks and the pending list change only after every
\* dispatch of the batch has produced a result or a failure.
C17_RoundsDoNotOverlap ==
    /\ []C17_OnlyBatchInProgress
    /\ [][C17_StateFrozenWhileOpen]_vars

\* one task of a batch of two has finished, the other is still running, and
\* a third task is pending
C17_Witness ==
    /\ RoundOpen
    /\ Len(batch) > 1
    /\ batch_results # <<>>
    /\ \E p \in DOMAIN tasks : p \notin Range(batch) /\ Status(p) = "pending"

\* ------------------------------------------------------------------- C18
\* result and error of task p agree with its status
C18_FieldsMatchStatus(p) ==
    LET t == tasks[p]
    IN  /\ ~(t.result # "None" /\ t.error # "None")
        /\ t.status \in {"pending", "in_progress"} =>
              (t.result = "None" /\ t.error = "None")
        /\ t.status = "completed" => (t.result # "None" /\ t.error = "None")
        /\ t.status = "failed" => (t.error # "None" /\ t.result = "None")

\* a field that is set keeps its value
C18_WrittenOnce ==
    \A p \in 1 .. MaxTasks :
        (p \in DOMAIN tasks /\ p \in DOMAIN tasks') =>
            /\ tasks[p].result # "None" => tasks'[p].result = tasks[p].result
            /\ tasks[p].error # "None" => tasks'[p].error = tasks[p].error

\* C18: result and error are never both set, both are unset while a task is
\* pending or in_progress, a completed task has only result, a failed task
\* has only error, and a field that is set is not written again.
C18_ResultErrorExclusive ==
    /\ [](\A p \in DOMAIN tasks : C18_FieldsMatchStatus(p))
    /\ [][C18_WrittenOnce]_vars

\* one task is completed and another has failed
C18_Witness ==
    \E p, q \in DOMAIN tasks :
        /\ Status(p) = "completed" /\ tasks[p].result = "result"
        /\ Status(q) = "failed" /\ tasks[q].error = "exception"

\* ------------------------------------------------------------------- C19
\* C19: a setrlimit failure never reaches the parent: execute does not raise
\* and reports no preexec_fn error, the child stays alive to be exec'ed, and
\* when it has run and exited execute returns its exit code.
C19_LimitFailureNotFatal ==
    /\ sb_result.stderr # "Exception occurred in preexec_fn"
    /\ limit_warning =>
          /\ sb_pc # "raised"
          /\ sb_pc = "popen" => child = "preexec"
          /\ (sb_pc = "returned" /\ child = "exited") =>
                sb_result.return_code = child_out.return_code

\* the memory limit could not be set, and the child ran and its outcome was
\* returned
C19_Witness ==
    /\ limit_warning
    /\ limits_set = {}
    /\ sb_pc = "returned"
    /\ child = "exited"
    /\ sb_result.return_code = child_out.return_code

\* ------------------------------------------------------------------- C20
\* the rounds begun never exceed the tasks removed from the pending list
C20_RoundsBounded ==
    /\ round <= Len(tasks)
    /\ pc = "loop" => round <= Len(tasks) - Len(pending_tasks)

\* the join of a round shortens the pending list, and within a call no task
\* comes back into it
C20_PendingShrinks ==
    /\ (pc = "gather" /\ pc' = "loop") =>
          Len(pending_tasks') < Len(pending_tasks)
    /\ (pc \in {"loop", "gather"} /\ pc' # "idle") =>
          Range(pending_tasks') \subseteq Range(pending_tasks)

\* C20: every iteration that does not take the deadlock exit removes at least
\* one task from the pending list, the loop runs at most as many rounds as
\* there are tasks, and no task is put back into the pending list.
C20_EveryRoundRemovesATask ==
    /\ []C20_RoundsBounded
    /\ [][C20_PendingShrinks]_vars

\* a call ran as many rounds as it has tasks, more than one
C20_Witness ==
    /\ pc = "returned"
    /\ Len(tasks) > 1
    /\ round = Len(tasks)

\* ------------------------------------------------------------------- C21
\* C21: in the first call of a new orchestrator, between rounds, the ids in
\* completed_tasks are exactly the ids of the tasks whose status is
\* completed, no id is listed twice, and no failed task's id is listed.
C21_CompletedListMatchesStatus ==
    pc \in {"loop", "returned"} =>
        /\ \A p \in DOMAIN tasks :
              (tasks[p].task_id \in Range(completed_tasks))
                  <=> (Status(p) = "completed")
        /\ \A i \in DOMAIN completed_tasks :
              \E p \in DOMAIN tasks : tasks[p].task_id = completed_tasks[i]
        /\ \A i, j \in DOMAIN completed_tasks :
              i # j => completed_tasks[i] # completed_tasks[j]
        /\ \A p \in DOMAIN tasks :
              Status(p) = "failed" =>
                  tasks[p].task_id \notin Range(completed_tasks)

\* between two rounds one task is completed, one has failed, one is pending
C21_Witness ==
    /\ pc = "loop"
    /\ completed_tasks # <<>>
    /\ \E p, q, r \in DOMAIN tasks :
          /\ Status(p) = "completed"
          /\ Status(q) = "failed"
          /\ Status(r) = "pending"

\* ------------------------------------------------------------------- C22
\* the leading parts of the order memory, CPU time, core-dump size
C22_Prefixes ==
    {{}, {"RLIMIT_AS"}, {"RLIMIT_AS", "RLIMIT_CPU"},
     {"RLIMIT_AS", "RLIMIT_CPU", "RLIMIT_CORE"}}

\* C22: the limits applied are always a leading part of the order memory,
\* CPU time, core-dump size; once a setrlimit call has failed the last limit
\* is not applied, and a failed memory limit leaves no limit applied.
C22_LimitsFormPrefix ==
    /\ limits_set \in C22_Prefixes
    /\ limit_warning => "RLIMIT_CORE" \notin limits_set
    /\ (limit_warning /\ "RLIMIT_AS" \notin limits_set) => limits_set = {}

\* the CPU limit failed after the memory limit was set, and the child ran
\* without core-dump suppression
C22_Witness ==
    /\ limit_warning
    /\ limits_set = {"RLIMIT_AS"}
    /\ child \in {"running", "exited"}

====
